---------------------------- MODULE Spec2Model ----------------------------
(***************************************************************************)
(* Model of the Legislacion PBA bot: the intent parser, the filter and     *)
(* rank engine and the comparator of saij_core.py, and the handlers of     *)
(* bot.py that drive them.  Text is modelled character by character:       *)
(* a Python str is a TLA+ string, a regular expression is an operator that *)
(* gives the length of its match at a position.                            *)
(***************************************************************************)
EXTENDS Integers, Sequences, FiniteSets, TLC

VARIABLES
    DF,         \* bot.py: the module-level corpus, None until loaded
    loadCalls,  \* number of calls of load_latest_dataframe so far
    user_data,  \* bot.py: context.user_data of the chat
    call,       \* the last operation run and its inputs
    ret         \* what that operation returned or replied

vars == <<DF, loadCalls, user_data, call, ret>>

\* Python's None and an optional value: a sequence of length 0 or 1.
None == <<>>
Some(x) == <<x>>
IsNone(o) == o = <<>>
Val(o) == o[1]

\* The function f with its values worked out once, as a table.
Table(f) == IF f = f THEN f ELSE f

(***************************************************************************)
(* Python str operations.                                                  *)
(***************************************************************************)
Char(s, i) == SubSeq(s, i, i)

Digits == {"0", "1", "2", "3", "4", "5", "6", "7", "8", "9"}
LowerLetters ==
    {"a", "b", "c", "d", "e", "f", "g", "h", "i", "j", "k", "l", "m", "n", "o",
     "p", "q", "r", "s", "t", "u", "v", "w", "x", "y", "z"}
UpperLetters ==
    {"A", "B", "C", "D", "E", "F", "G", "H", "I", "J", "K", "L", "M", "N", "O",
     "P", "Q", "R", "S", "T", "U", "V", "W", "X", "Y", "Z"}
AccentLower == {"á", "é", "í", "ó", "ú", "ñ"}
AccentUpper == {"Á", "É", "Í", "Ó", "Ú", "Ñ"}

\* str.lower() on one character.
LowerChar(c) ==
    CASE c = "A" -> "a" [] c = "B" -> "b" [] c = "C" -> "c" [] c = "D" -> "d"
      [] c = "E" -> "e" [] c = "F" -> "f" [] c = "G" -> "g" [] c = "H" -> "h"
      [] c = "I" -> "i" [] c = "J" -> "j" [] c = "K" -> "k" [] c = "L" -> "l"
      [] c = "M" -> "m" [] c = "N" -> "n" [] c = "O" -> "o" [] c = "P" -> "p"
      [] c = "Q" -> "q" [] c = "R" -> "r" [] c = "S" -> "s" [] c = "T" -> "t"
      [] c = "U" -> "u" [] c = "V" -> "v" [] c = "W" -> "w" [] c = "X" -> "x"
      [] c = "Y" -> "y" [] c = "Z" -> "z" [] c = "Á" -> "á" [] c = "É" -> "é"
      [] c = "Í" -> "í" [] c = "Ó" -> "ó" [] c = "Ú" -> "ú" [] c = "Ñ" -> "ñ"
      [] OTHER -> c

\* unidecode() on one character: the accent is folded away.
UnidecodeChar(c) ==
    CASE c = "á" -> "a" [] c = "é" -> "e" [] c = "í" -> "i" [] c = "ó" -> "o"
      [] c = "ú" -> "u" [] c = "ñ" -> "n" [] c = "Á" -> "A" [] c = "É" -> "E"
      [] c = "Í" -> "I" [] c = "Ó" -> "O" [] c = "Ú" -> "U" [] c = "Ñ" -> "N"
      [] OTHER -> c

\* str.lower(): character by character (the text is halved to keep the
\* recursion shallow).
RECURSIVE Lower(_)
Lower(s) ==
    IF Len(s) = 0 THEN ""
    ELSE IF Len(s) = 1 THEN LowerChar(s)
    ELSE Lower(SubSeq(s, 1, Len(s) \div 2)) \o Lower(SubSeq(s, Len(s) \div 2 + 1, Len(s)))

\* unidecode(): character by character.
RECURSIVE Unidecode(_)
Unidecode(s) ==
    IF Len(s) = 0 THEN ""
    ELSE IF Len(s) = 1 THEN UnidecodeChar(s)
    ELSE Unidecode(SubSeq(s, 1, Len(s) \div 2))
             \o Unidecode(SubSeq(s, Len(s) \div 2 + 1, Len(s)))

\* saij_core._norm
Norm(s) == Unidecode(Lower(s))

\* The literal p occurs in s at position i.
LitAt(s, i, p) == i >= 1 /\ i + Len(p) - 1 <= Len(s) /\ SubSeq(s, i, i + Len(p) - 1) = p

\* p in s
Contains(s, p) == \E i \in 1..(Len(s) + 1) : LitAt(s, i, p)

\* str.find, 1-based; 0 when p does not occur.
Find(s, p) ==
    IF Contains(s, p) THEN CHOOSE i \in 1..(Len(s) + 1) :
                              LitAt(s, i, p) /\ \A j \in 1..(i - 1) : ~LitAt(s, j, p)
    ELSE 0

\* str.count: non-overlapping occurrences, scanning from the left.
RECURSIVE CountFrom(_, _, _)
CountFrom(s, p, i) ==
    IF Len(p) = 0 THEN Len(s) + 2 - i
    ELSE IF i + Len(p) - 1 > Len(s) THEN 0
    ELSE IF LitAt(s, i, p) THEN 1 + CountFrom(s, p, i + Len(p))
    ELSE CountFrom(s, p, i + 1)
Count(s, p) == CountFrom(s, p, 1)

\* str.isspace(), \s
IsSpace(c) == c \in {" ", "\n", "\t"}
IsDigit(c) == c \in Digits
\* \w of a str pattern: letters (accented ones too), digits and underscore.
IsWord(c) ==
    c \in LowerLetters \cup UpperLetters \cup AccentLower \cup AccentUpper \cup Digits \cup {"_"}

\* str.strip()
RECURSIVE LStrip(_)
LStrip(s) == IF Len(s) > 0 /\ IsSpace(Char(s, 1)) THEN LStrip(SubSeq(s, 2, Len(s))) ELSE s
RECURSIVE RStrip(_)
RStrip(s) ==
    IF Len(s) > 0 /\ IsSpace(Char(s, Len(s))) THEN RStrip(SubSeq(s, 1, Len(s) - 1)) ELSE s
Strip(s) == RStrip(LStrip(s))

\* str.split(): the maximal runs of non-space characters, in order.
Split(s) ==
    LET starts == {i \in 1..Len(s) :
                      ~IsSpace(Char(s, i)) /\ (i = 1 \/ IsSpace(Char(s, i - 1)))}
        endOf(i) == CHOOSE j \in i..Len(s) :
                       /\ \A k \in i..j : ~IsSpace(Char(s, k))
                       /\ (j = Len(s) \/ IsSpace(Char(s, j + 1)))
        nth(k) == CHOOSE i \in starts : Cardinality({j \in starts : j < i}) = k - 1
    IN  Table([k \in 1..Cardinality(starts) |-> SubSeq(s, nth(k), endOf(nth(k)))])

\* " ".join(seq)
RECURSIVE Join(_, _)
Join(sep, seq) ==
    IF Len(seq) = 0 THEN ""
    ELSE IF Len(seq) = 1 THEN seq[1]
    ELSE seq[1] \o sep \o Join(sep, Tail(seq))

\* int() of a string of digits.
DigitVal(c) ==
    CASE c = "0" -> 0 [] c = "1" -> 1 [] c = "2" -> 2 [] c = "3" -> 3 [] c = "4" -> 4
      [] c = "5" -> 5 [] c = "6" -> 6 [] c = "7" -> 7 [] c = "8" -> 8 [] c = "9" -> 9
RECURSIVE ToInt(_)
ToInt(s) ==
    IF Len(s) = 0 THEN 0
    ELSE 10 * ToInt(SubSeq(s, 1, Len(s) - 1)) + DigitVal(Char(s, Len(s)))

(***************************************************************************)
(* Regular expression pieces (module re).  A matcher gives the length of   *)
(* the match that starts at position i, or -1.  Matching with re.I is done *)
(* on the lowered text.                                                    *)
(***************************************************************************)
NoMatch == -1

\* \b at position i: between s[i-1] and s[i] exactly one is a word character.
WordBoundary(s, i) ==
    LET before == i > 1 /\ i - 1 <= Len(s) /\ IsWord(Char(s, i - 1))
        after == i >= 1 /\ i <= Len(s) /\ IsWord(Char(s, i))
    IN  before # after

\* The greedy runs \s*, \d+ from position i: their length.
RECURSIVE SpaceRun(_, _)
SpaceRun(s, i) == IF i <= Len(s) /\ IsSpace(Char(s, i)) THEN 1 + SpaceRun(s, i + 1) ELSE 0
RECURSIVE DigitRun(_, _)
DigitRun(s, i) == IF i <= Len(s) /\ IsDigit(Char(s, i)) THEN 1 + DigitRun(s, i + 1) ELSE 0

\* The first alternative of alts (a sequence of literals) found at i; 0 if none.
FirstAlt(s, i, alts) ==
    IF \E k \in 1..Len(alts) : LitAt(s, i, alts[k])
    THEN CHOOSE k \in 1..Len(alts) :
            LitAt(s, i, alts[k]) /\ \A j \in 1..(k - 1) : ~LitAt(s, i, alts[j])
    ELSE 0

\* re.search: the leftmost position with a match; 0 if none.  lens[i] is the
\* length of the pattern's match at position i.
SearchFirst(lens) ==
    LET hits == {i \in DOMAIN lens : lens[i] # NoMatch}
    IN  IF hits = {} THEN 0 ELSE CHOOSE i \in hits : \A j \in hits : i <= j

\* re.sub(pattern, " ", s): every non-overlapping match, left to right.
\* lens[i] is the length of the pattern's match at position i.
RECURSIVE SubFrom(_, _, _)
SubFrom(s, i, lens) ==
    IF i > Len(s) THEN ""
    ELSE IF lens[i] > 0 THEN " " \o SubFrom(s, i + lens[i], lens)
    ELSE Char(s, i) \o SubFrom(s, i + 1, lens)
\* A literal pattern in which "." stands for any character, at position i.
PatAt(s, i, p) ==
    /\ i >= 1
    /\ i + Len(p) - 1 <= Len(s)
    /\ \A j \in 1..Len(p) : \/ Char(p, j) = "." /\ Char(s, i + j - 1) # "\n"
                            \/ Char(s, i + j - 1) = Char(p, j)

\* re.search(rf"\b{p}\b", s)
SearchWord(s, p) ==
    \E i \in 1..(Len(s) + 1) :
        WordBoundary(s, i) /\ PatAt(s, i, p) /\ WordBoundary(s, i + Len(p))

\* re.search(r"\b(a1|a2|...)\b", s)
SearchWordAlts(s, alts) ==
    \E i \in 1..(Len(s) + 1), k \in 1..Len(alts) :
        WordBoundary(s, i) /\ LitAt(s, i, alts[k]) /\ WordBoundary(s, i + Len(alts[k]))

(***************************************************************************)
(* saij_core.parse_nl_query                                                *)
(***************************************************************************)
_TIPO_ALIASES ==
    << <<"ley", "LEY">>, <<"decreto", "DECRETO">>, <<"resolucion", "RESOLUCIÓN">>,
       <<"resolución", "RESOLUCIÓN">>, <<"res.", "RESOLUCIÓN">>, <<"decr.", "DECRETO">> >>

\* str.upper() of the words group 1 of the pattern can hold.
Upper(w) ==
    CASE w = "ley" -> "LEY" [] w = "decreto" -> "DECRETO"
      [] w = "resolucion" -> "RESOLUCION" [] w = "resolución" -> "RESOLUCIÓN"

\* _TIPO_ALIASES.get(w, w.upper())
AliasOf(w) ==
    IF \E k \in 1..Len(_TIPO_ALIASES) : _TIPO_ALIASES[k][1] = w
    THEN _TIPO_ALIASES[CHOOSE k \in 1..Len(_TIPO_ALIASES) : _TIPO_ALIASES[k][1] = w][2]
    ELSE Upper(w)

\* (ley|decreto|resoluci[oó]n)
TipoWords == <<"ley", "decreto", "resolucion", "resolución">>

\* (ley|decreto|resoluci[oó]n)\s+(\d+)(?:/\s*(\d{4}))?  at position i of the
\* lowered text.  slashSpace: whether \s* is allowed after the slash (it is in
\* the pattern of line 93 and is not in the pattern of line 121).
TipoNumAt(s, i, slashSpace) ==
    LET k == FirstAlt(s, i, TipoWords)
        p1 == i + Len(TipoWords[k])
        sp == SpaceRun(s, p1)
        p2 == p1 + sp
        dg == DigitRun(s, p2)
        p3 == p2 + dg
        sp2 == IF slashSpace THEN SpaceRun(s, p3 + 1) ELSE 0
        p4 == p3 + 1 + sp2
        year == LitAt(s, p3, "/") /\ DigitRun(s, p4) >= 4
    IN  IF k = 0 \/ sp = 0 \/ dg = 0
        THEN [len |-> NoMatch, g1 |-> "", g2 |-> "", g3 |-> None]
        ELSE [len |-> IF year THEN p4 + 4 - i ELSE p3 - i,
              g1 |-> TipoWords[k],
              g2 |-> SubSeq(s, p2, p3 - 1),
              g3 |-> IF year THEN Some(SubSeq(s, p4, p4 + 3)) ELSE None]

M_TipoNum(s, i) == TipoNumAt(s, i, TRUE).len
M_TipoNumStrip(s, i) == TipoNumAt(s, i, FALSE).len

\* (word)\s+(\d{4}) for the words desde, hasta: the year, or None.
M_WordYear(s, i, words) ==
    LET k == FirstAlt(s, i, words)
        p1 == i + Len(words[k])
        sp == SpaceRun(s, p1)
    IN  IF k # 0 /\ sp > 0 /\ DigitRun(s, p1 + sp) >= 4 THEN Len(words[k]) + sp + 4
        ELSE NoMatch
M_Desde(s, i) == M_WordYear(s, i, <<"desde">>)
M_Hasta(s, i) == M_WordYear(s, i, <<"hasta">>)
M_DesdeHasta(s, i) == M_WordYear(s, i, <<"desde", "hasta">>)

\* (\d{4})\s*(?:a|hasta|-|al)\s*(\d{4}): where group 2 starts, or 0.
RangeSeps == <<"a", "hasta", "-", "al">>
RangeGroup2(s, i) ==
    LET p1 == i + 4 + SpaceRun(s, i + 4)
        ok(k) == /\ LitAt(s, p1, RangeSeps[k])
                 /\ DigitRun(s, p1 + Len(RangeSeps[k])
                                  + SpaceRun(s, p1 + Len(RangeSeps[k]))) >= 4
    IN  IF DigitRun(s, i) >= 4 /\ \E k \in 1..Len(RangeSeps) : ok(k)
        THEN LET k == CHOOSE k \in 1..Len(RangeSeps) :
                          ok(k) /\ \A j \in 1..(k - 1) : ~ok(j)
             IN  p1 + Len(RangeSeps[k]) + SpaceRun(s, p1 + Len(RangeSeps[k]))
        ELSE 0
M_Range(s, i) == IF RangeGroup2(s, i) = 0 THEN NoMatch ELSE RangeGroup2(s, i) + 4 - i
\* \b\d{4}\s*(?:a|hasta|-|al)\s*\d{4}\b: a separator whose match ends at a word
\* boundary (the alternatives are tried in order, each up to the final \b).
M_RangeStrip(s, i) ==
    LET p1 == i + 4 + SpaceRun(s, i + 4)
        endOf(k) == p1 + Len(RangeSeps[k]) + SpaceRun(s, p1 + Len(RangeSeps[k])) + 4
        ok(k) == /\ LitAt(s, p1, RangeSeps[k])
                 /\ DigitRun(s, endOf(k) - 4) >= 4
                 /\ WordBoundary(s, endOf(k))
    IN  IF WordBoundary(s, i) /\ DigitRun(s, i) >= 4 /\ \E k \in 1..Len(RangeSeps) : ok(k)
        THEN endOf(CHOOSE k \in 1..Len(RangeSeps) : ok(k) /\ \A j \in 1..(k - 1) : ~ok(j)) - i
        ELSE NoMatch

\* (?:año|anio)\s*(\d{4}): where the year starts, or 0.
AnioGroup(s, i) ==
    LET k == FirstAlt(s, i, <<"año", "anio">>)
        p1 == i + Len(<<"año", "anio">>[k]) + SpaceRun(s, i + Len(<<"año", "anio">>[k]))
    IN  IF k # 0 /\ DigitRun(s, p1) >= 4 THEN p1 ELSE 0
M_Anio(s, i) == IF AnioGroup(s, i) = 0 THEN NoMatch ELSE AnioGroup(s, i) + 4 - i

\* (?:limit|límite|limite)\s*[: ]\s*(\d{1,2}): where the number starts, or 0.
\* \s*[: ]\s* is a run of whitespace with a blank in it, or one holding a colon.
LimitWords == <<"limit", "límite", "limite">>
LimitGroup(s, i, words) ==
    LET ok(k) ==
            LET p1 == i + Len(words[k])
                sp == SpaceRun(s, p1)
                colon == LitAt(s, p1 + sp, ":")
                p2 == IF colon THEN p1 + sp + 1 + SpaceRun(s, p1 + sp + 1) ELSE p1 + sp
                blank == \E j \in p1..(p1 + sp - 1) : Char(s, j) = " "
            IN  IF LitAt(s, i, words[k]) /\ (colon \/ blank) /\ DigitRun(s, p2) >= 1
                THEN p2 ELSE 0
    IN  IF \E k \in 1..Len(words) : ok(k) # 0
        THEN ok(CHOOSE k \in 1..Len(words) : ok(k) # 0 /\ \A j \in 1..(k - 1) : ok(j) = 0)
        ELSE 0
LimitLen(s, p) == IF DigitRun(s, p) >= 2 THEN 2 ELSE 1
M_Limit(s, i) ==
    LET p == LimitGroup(s, i, LimitWords)
    IN  IF p = 0 THEN NoMatch ELSE p + LimitLen(s, p) - i
\* (limit|l[ií]mite|limite)\s*[: ]\s*\d{1,2}
M_LimitStrip(s, i) ==
    LET p == LimitGroup(s, i, <<"limit", "limite", "límite">>)
    IN  IF p = 0 THEN NoMatch ELSE p + LimitLen(s, p) - i

\* (vigente|vigentes|derogad|no vigente|anulad|abrogad|caduc)
StripCues == <<"vigente", "vigentes", "derogad", "no vigente", "anulad", "abrogad", "caduc">>
M_CueStrip(s, i) ==
    LET k == FirstAlt(s, i, StripCues) IN IF k = 0 THEN NoMatch ELSE Len(StripCues[k])

\* The patterns of parse_nl_query by name: the length of the match of pat at
\* position i of the lowered text s.
MatchLen(pat, s, i) ==
    CASE pat = "tipo_num" -> M_TipoNum(s, i)
      [] pat = "desde" -> M_Desde(s, i)
      [] pat = "hasta" -> M_Hasta(s, i)
      [] pat = "range" -> M_Range(s, i)
      [] pat = "anio" -> M_Anio(s, i)
      [] pat = "limit" -> M_Limit(s, i)
      [] pat = "tipo_num_strip" -> M_TipoNumStrip(s, i)
      [] pat = "desde_hasta_strip" -> M_DesdeHasta(s, i)
      [] pat = "range_strip" -> M_RangeStrip(s, i)
      [] pat = "cue_strip" -> M_CueStrip(s, i)
      [] pat = "limit_strip" -> M_LimitStrip(s, i)

\* re.search(pat, s, re.I): where the leftmost match starts; 0 if none.
SearchPos(low, pat) ==
    SearchFirst(Table([i \in 1..(Len(low) + 1) |-> MatchLen(pat, low, i)]))

\* re.sub(pat, " ", s, flags=re.I): the pattern is matched on the lowered text.
SubLow(s, low, pat) == SubFrom(s, 1, Table([i \in 1..Len(s) |-> MatchLen(pat, low, i)]))
SubI(s, pat) == SubLow(s, Lower(s), pat)

VigenteCues == <<"vigente", "vigentes", "en vigor", "activo">>
NoVigenteCues == <<"derogad", "no vigente", "anulad", "abrogad", "caduc">>

\* The loop over _TIPO_ALIASES: the last alias, in the table's order, that occurs
\* as a word overrides the tipo found so far.
TipoSuelto(low, tipo0) ==
    LET hits == {k \in 1..Len(_TIPO_ALIASES) : SearchWord(low, _TIPO_ALIASES[k][1])}
    IN  IF hits = {} THEN tipo0
        ELSE Some(_TIPO_ALIASES[CHOOSE k \in hits : \A j \in hits : j <= k][2])

\* The cue found second wins: line 105 is run after line 104.
VigenteOf(low) ==
    IF SearchWordAlts(low, NoVigenteCues) THEN Some(FALSE)
    ELSE IF SearchWordAlts(low, VigenteCues) THEN Some(TRUE)
    ELSE None

\* Lines 121-127: what is left of raw for "q".
StripPatterns ==
    <<"tipo_num_strip", "desde_hasta_strip", "range_strip", "cue_strip", "limit_strip">>
RECURSIVE SubAll(_, _)
SubAll(s, pats) == IF Len(pats) = 0 THEN s ELSE SubAll(SubI(s, pats[1]), Tail(pats))
ResidualQ(raw) ==
    LET q == Join(" ", Split(SubAll(raw, StripPatterns)))
    IN  IF q = "" THEN None ELSE Some(q)

\* Lines 93-118 and 127: the intent, at[pat] being where the leftmost match of
\* the pattern pat starts in the lowered text (0: no match).
ParseFound(raw, low, at) ==
    LET mi == at["tipo_num"]
        m == TipoNumAt(low, mi, TRUE)
        md == at["desde"]
        mh == at["hasta"]
        mr == at["range"]
        ma == at["anio"]
        ml == at["limit"]
        yearAt(p) == Some(SubSeq(low, p, p + 3))
        desde0 == IF md # 0 THEN yearAt(md + M_Desde(low, md) - 4) ELSE None
        hasta0 == IF mh # 0 THEN yearAt(mh + M_Hasta(low, mh) - 4) ELSE None
        anio0 == IF mi # 0 THEN m.g3 ELSE None
        lp == LimitGroup(low, ml, LimitWords)
    IN  [q |-> ResidualQ(raw),
         tipo |-> TipoSuelto(low, IF mi # 0 THEN Some(AliasOf(m.g1)) ELSE None),
         numero |-> IF mi # 0 THEN Some(m.g2) ELSE None,
         anio |-> IF ma # 0 THEN yearAt(AnioGroup(low, ma)) ELSE anio0,
         anio_desde |-> IF mr # 0 THEN yearAt(mr) ELSE desde0,
         anio_hasta |-> IF mr # 0 THEN yearAt(RangeGroup2(low, mr)) ELSE hasta0,
         vigente |-> VigenteOf(low),
         limit |-> IF ml # 0 THEN Some(ToInt(SubSeq(low, lp, lp + LimitLen(low, lp) - 1)))
                   ELSE None,
         action |-> IF \E i \in 1..(Len(low) + 1) : WordBoundary(low, i) /\ LitAt(low, i, "compar")
                    THEN "compare" ELSE "search"]

\* The searches of lines 93-117, on the lowered text.
ParseLow(raw, low) ==
    ParseFound(raw, low,
               Table([pat \in {"tipo_num", "desde", "hasta", "range", "anio", "limit"} |->
                         SearchPos(low, pat)]))

\* Line 85 on: raw is the stripped text.
ParseRaw(raw) == ParseLow(raw, Lower(raw))

parse_nl_query(text) == ParseRaw(Strip(text))

(***************************************************************************)
(* DataFrames.  A frame is [columns, rows]: the column names in order and  *)
(* the rows in order; a row is [idx, val]: its index label and its cells,  *)
(* a function of the column name.  A cell is a string or NaN.              *)
(***************************************************************************)
NaN == "NaN"
\* Series.fillna("")
FillNa(v) == IF v = NaN THEN "" ELSE v
\* str(v)
Str(v) == IF v = NaN THEN "nan" ELSE v

Range(seq) == {seq[i] : i \in 1..Len(seq)}

\* The subsequence of seq of the elements that satisfy keep, in order.
RECURSIVE SelectRows(_, _)
SelectRows(seq, keep) ==
    IF Len(seq) = 0 THEN <<>>
    ELSE (IF seq[1] \in keep THEN <<seq[1]>> ELSE <<>>) \o SelectRows(Tail(seq), keep)

\* df[mask]
Masked(df, mask) == [columns |-> df.columns, rows |-> SelectRows(df.rows, mask)]

CAND_COLS ==
    [provincia |-> <<"provincia", "jurisdiccion", "jurisdicción">>,
     tipo |-> <<"tipo_norma", "tipo", "tipo de norma">>,
     numero |-> <<"numero", "número", "nro", "n_norma", "nro_norma">>,
     anio |-> <<"anio", "año", "ano", "ano_norma", "año_norma">>,
     fecha |-> <<"fecha", "fecha_sancion", "fecha sancion", "fecha_sanción",
                 "fecha_publicacion">>,
     sumario |-> <<"sumario", "titulo", "título", "caratula", "carátula", "descripcion",
                   "descripción">>,
     estado |-> <<"estado", "vigencia", "estado_vigencia">>,
     url |-> <<"url", "enlace", "link", "href">>]

\* saij_core._pick_col: an exact match of an alias, the aliases in order; else
\* the first column whose name holds an alias; else None.
_pick_col(df, keys) ==
    LET cols == df.columns
        low == Table([i \in 1..Len(cols) |-> Lower(cols[i])])
        key == Table([k \in 1..Len(keys) |-> Lower(keys[k])])
        exact == {k \in 1..Len(keys) : \E i \in 1..Len(cols) : low[i] = key[k]}
        part == {i \in 1..Len(cols) : \E k \in 1..Len(keys) : Contains(low[i], key[k])}
    IN  IF exact # {}
        THEN LET k == CHOOSE k \in exact : \A j \in exact : k <= j
             IN  Some(cols[CHOOSE i \in 1..Len(cols) :
                              /\ low[i] = key[k]
                              /\ \A j \in 1..(i - 1) : low[j] # key[k]])
        ELSE IF part # {} THEN Some(cols[CHOOSE i \in part : \A j \in part : i <= j])
        ELSE None

\* Series.str.contains(pat, case=False) for a pattern a1|a2|... of literals.
StrContainsAny(v, alts) ==
    LET low == Lower(FillNa(v)) IN \E k \in 1..Len(alts) : Contains(low, Lower(alts[k]))

\* A local DataFrame of search: the frame, and whether the object is the
\* caller's own df (alias) rather than a new object.
\* _filter_pba with the second return as "return df": no copy, the caller's
\* own frame is handed on when there is no provincia column.
_filter_pba_NoCopy(df) ==
    LET c == _pick_col(df, CAND_COLS.provincia)
    IN  IF ~IsNone(c)
        THEN [frame |-> Masked(df, {r \in Range(df.rows) :
                                      StrContainsAny(r.val[Val(c)], <<"Buenos Aires">>)}),
              alias |-> FALSE]
        ELSE [frame |-> df, alias |-> TRUE]

\* saij_core._filter_pba: both branches return a copy.
_filter_pba(df) ==
    LET c == _pick_col(df, CAND_COLS.provincia)
    IN  IF ~IsNone(c)
        THEN [frame |-> Masked(df, {r \in Range(df.rows) :
                                      StrContainsAny(r.val[Val(c)], <<"Buenos Aires">>)}),
              alias |-> FALSE]
        ELSE [frame |-> df, alias |-> FALSE]

\* out = out[mask]: boolean indexing gives a new object.
Keep(o, mask) == [frame |-> Masked(o.frame, mask), alias |-> FALSE]

\* Series.str.extract(r"(\d{4})").fillna("0").astype(int)
ExtractYear(v) ==
    LET s == FillNa(v)
        hits == {i \in 1..Len(s) : DigitRun(s, i) >= 4}
    IN  IF hits = {} THEN 0
        ELSE LET i == CHOOSE i \in hits : \A j \in hits : i <= j
             IN  ToInt(SubSeq(s, i, i + 3))

\* Python truthiness of an optional str.
Truthy(o) == ~IsNone(o) /\ Val(o) # ""

\* search, lines 154-169: the structured filters.
TipoFilter(o, a, c_tip) ==
    IF Truthy(a.tipo) /\ ~IsNone(c_tip)
    THEN Keep(o, {r \in Range(o.frame.rows) :
                     StrContainsAny(r.val[Val(c_tip)], <<Val(a.tipo)>>)})
    ELSE o

NumeroFilter(o, a, c_num) ==
    IF Truthy(a.numero) /\ ~IsNone(c_num)
    THEN Keep(o, {r \in Range(o.frame.rows) :
                     StrContainsAny(r.val[Val(c_num)], <<Val(a.numero)>>)})
    ELSE o

\* anio takes the place of the range: the range is looked at in the else branch only.
AnioFilter(o, a, c_an) ==
    IF Truthy(a.anio) /\ ~IsNone(c_an)
    THEN Keep(o, {r \in Range(o.frame.rows) :
                     StrContainsAny(r.val[Val(c_an)], <<Val(a.anio)>>)})
    ELSE IF (Truthy(a.anio_desde) \/ Truthy(a.anio_hasta)) /\ ~IsNone(c_an)
    THEN LET lo == ToInt(IF Truthy(a.anio_desde) THEN Val(a.anio_desde) ELSE "1800")
             hi == ToInt(IF Truthy(a.anio_hasta) THEN Val(a.anio_hasta) ELSE "9999")
         IN  Keep(o, {r \in Range(o.frame.rows) :
                         LET y == ExtractYear(r.val[Val(c_an)]) IN lo <= y /\ y <= hi})
    ELSE o

VigenteFilter(o, a, c_est) ==
    IF ~IsNone(a.vigente) /\ ~IsNone(c_est)
    THEN IF Val(a.vigente)
         THEN Keep(o, {r \in Range(o.frame.rows) :
                          StrContainsAny(r.val[Val(c_est)],
                                         <<"vigente", "en vigor", "activo">>)})
         ELSE Keep(o, {r \in Range(o.frame.rows) :
                          StrContainsAny(r.val[Val(c_est)],
                              <<"no vigente", "derog", "anulad", "abrog", "caduc">>)})
    ELSE o

(***************************************************************************)
(* Ranking.  A score is an exact fraction <<numerator, denominator>>.      *)
(***************************************************************************)
FAdd(a, b) == <<a[1] * b[2] + b[1] * a[2], a[2] * b[2]>>
FLess(a, b) == a[1] * b[2] < b[1] * a[2]
FEq(a, b) == a[1] * b[2] = b[1] * a[2]

\* The greatest number of a non-empty set.
Max(S) == CHOOSE x \in S : \A y \in S : x >= y

\* Length of the longest common subsequence, on which the Indel distance of
\* rapidfuzz rests: the table is filled row by row, a row for each character
\* of a, the columns 0..Len(b).  The character ch of a is left out, or paired
\* with one of its occurrences b[k].
LcsRow(prev, ch, b) ==
    LET occ == {k \in 1..Len(b) : Char(b, k) = ch}
    IN  Table([j \in 0..Len(b) |->
                  Max({prev[j]} \cup {prev[k - 1] + 1 : k \in {k \in occ : k <= j}})])
\* The row after the characters lo..hi of a, from the row prev before them
\* (the characters are halved to keep the recursion shallow).
RECURSIVE LcsRows(_, _, _, _, _)
LcsRows(a, b, lo, hi, prev) ==
    IF DOMAIN prev # 0..Len(b) \/ lo > hi THEN prev
    ELSE IF lo = hi THEN LcsRow(prev, Char(a, lo), b)
    ELSE LcsRows(a, b, (lo + hi) \div 2 + 1, hi, LcsRows(a, b, lo, (lo + hi) \div 2, prev))
LCS(a, b) == LcsRows(a, b, 1, Len(a), [j \in 0..Len(b) |-> 0])[Len(b)]

\* rapidfuzz fuzz.ratio / 100: the normalized Indel similarity.
Ratio(a, b) == IF Len(a) + Len(b) = 0 THEN <<1, 1>> ELSE <<2 * LCS(a, b), Len(a) + Len(b)>>

\* The greatest fraction of a non-empty set.
FMax(S) == CHOOSE x \in S : \A y \in S : ~FLess(x, y)

\* rapidfuzz fuzz.partial_ratio / 100: the best ratio of the shorter string
\* against the windows of the longer one: its prefixes shorter than the
\* window, its windows of the shorter string's length, its suffixes.
PartialRatioImpl(sh, lg) ==
    LET n == Len(sh)
        m == Len(lg)
        windows == {SubSeq(lg, 1, i) : i \in 1..(n - 1)}
                   \cup {SubSeq(lg, i, i + n - 1) : i \in 1..(m - n + 1)}
                   \cup {SubSeq(lg, i, m) : i \in (m - n + 1)..m}
    IN  IF n = 0 THEN <<0, 1>>
        ELSE IF Contains(lg, sh) THEN <<1, 1>>
        ELSE FMax({Ratio(sh, w) : w \in windows})

partial_ratio(s1, s2) ==
    IF Len(s1) = 0 /\ Len(s2) = 0 THEN <<1, 1>>
    ELSE IF Len(s1) < Len(s2) THEN PartialRatioImpl(s1, s2)
    ELSE IF Len(s2) < Len(s1) THEN PartialRatioImpl(s2, s1)
    ELSE FMax({PartialRatioImpl(s1, s2), PartialRatioImpl(s2, s1)})

\* saij_core._rank_score: 2.0 * count + 0.02 * partial_ratio (0..100) per term.
RECURSIVE _rank_score(_, _)
_rank_score(text, terms) ==
    IF Len(terms) = 0 THEN <<0, 1>>
    ELSE LET t == Norm(text)
             tt == Norm(terms[1])
             pr == partial_ratio(t, tt)
             rest == _rank_score(text, Tail(terms))
         IN  IF terms[1] = "" THEN rest
             ELSE FAdd(FAdd(<<2 * Count(t, tt), 1>>, <<2 * pr[1], pr[2]>>), rest)

\* pd.to_datetime(v, errors="coerce", dayfirst=True) of dd/mm/yyyy: the date as
\* the number yyyymmdd; None (NaT) for anything that is no date.
ToDatetime(v) ==
    LET s == FillNa(v)
        dd == ToInt(SubSeq(s, 1, 2))
        mm == ToInt(SubSeq(s, 4, 5))
    IN  IF /\ Len(s) = 10
           /\ \A i \in {1, 2, 4, 5, 7, 8, 9, 10} : IsDigit(Char(s, i))
           /\ Char(s, 3) = "/" /\ Char(s, 6) = "/"
           /\ dd \in 1..31 /\ mm \in 1..12
        THEN Some(ToInt(SubSeq(s, 7, 10)) * 10000 + mm * 100 + dd)
        ELSE None

\* The orders of the rows S by key (an integer per row) descending that a sort
\* may give when rows of equal key may come out in any order.
RECURSIVE DescendingOrders(_, _)
DescendingOrders(S, key) ==
    IF S = {} THEN {<<>>}
    ELSE UNION {{<<x>> \o t : t \in DescendingOrders(S \ {x}, key)} :
                x \in {y \in S : \A z \in S : key[y] >= key[z]}}

\* DataFrame.sort_values(col, ascending=False), kind left at its default
\* "quicksort", which is not a stable sort: rows of equal key in any order; the
\* rows without a key (NaN, NaT) last, in the order they had (na_position="last").
\* key[r] is None or Some(integer).
sort_values(rows, key) ==
    LET with == {r \in Range(rows) : ~IsNone(key[r])}
        nans == SelectRows(rows, {r \in Range(rows) : IsNone(key[r])})
    IN  {t \o nans : t \in DescendingOrders(with, Table([r \in with |-> Val(key[r])]))}

\* DataFrame.head(n): the first n rows; all but the last -n for a negative n.
head(rows, n) ==
    IF n >= 0 THEN SubSeq(rows, 1, IF n < Len(rows) THEN n ELSE Len(rows))
    ELSE SubSeq(rows, 1, IF Len(rows) + n > 0 THEN Len(rows) + n ELSE 0)

\* search, lines 171-181: the orders the ranking may leave the rows in, and the
\* caller's df after it.  With free text and a sumario column the rows are
\* scored on a copy; else with a fecha column a column "_f" is set on out
\* itself, which is the caller's df when out is an alias of it.
Ranked(o, df, query, c_sum, c_fe) ==
    LET rows == o.frame.rows
        S == Range(rows)
    IN  IF ~IsNone(c_sum) /\ Truthy(query)
        THEN LET terms == Split(Val(query))
                 score == Table([r \in S |->
                                    _rank_score(Str(FillNa(r.val[Val(c_sum)])), terms)])
                 key == Table([r \in S |->
                                  Some(Cardinality({z \in S : FLess(score[z], score[r])}))])
             IN  [orders |-> sort_values(rows, key), df |-> df]
        ELSE IF ~IsNone(c_fe)
        THEN LET key == Table([r \in S |-> ToDatetime(r.val[Val(c_fe)])])
                 withF == [columns |-> Append(df.columns, "_f"),
                           rows |-> [i \in 1..Len(df.rows) |->
                                        [idx |-> df.rows[i].idx,
                                         val |-> [c \in DOMAIN df.rows[i].val \cup {"_f"} |->
                                                    IF c = "_f"
                                                    THEN ToDatetime(df.rows[i].val[Val(c_fe)])
                                                    ELSE df.rows[i].val[c]]]]]
             IN  [orders |-> sort_values(rows, key), df |-> IF o.alias THEN withF ELSE df]
        ELSE [orders |-> {rows}, df |-> df]

\* The arguments of search other than df.
SearchArgs(query, tipo, vigente, numero, anio, anio_desde, anio_hasta, limit) ==
    [query |-> query, tipo |-> tipo, vigente |-> vigente, numero |-> numero, anio |-> anio,
     anio_desde |-> anio_desde, anio_hasta |-> anio_hasta, limit |-> limit]

\* search, lines 147-153 and 184: the column of each canonical field.
Cols(frame) ==
    [sumario |-> _pick_col(frame, CAND_COLS.sumario),
     tipo |-> _pick_col(frame, CAND_COLS.tipo),
     estado |-> _pick_col(frame, CAND_COLS.estado),
     numero |-> _pick_col(frame, CAND_COLS.numero),
     anio |-> _pick_col(frame, CAND_COLS.anio),
     fecha |-> _pick_col(frame, CAND_COLS.fecha),
     url |-> _pick_col(frame, CAND_COLS.url)]

\* The filters with the validity mask taken on the rows _filter_pba gave in
\* place of the rows the filters before it kept.
Filtered_VigenteOnAll(out, a, cols) ==
    VigenteFilter(
        IF ~IsNone(a.vigente) /\ ~IsNone(cols.estado) THEN out
        ELSE AnioFilter(NumeroFilter(TipoFilter(out, a, cols.tipo), a, cols.numero), a,
                        cols.anio),
        a, cols.estado)

\* search, lines 154-169: the filters, one after the other, on out.
Filtered(out, a, cols) ==
    VigenteFilter(
        AnioFilter(NumeroFilter(TipoFilter(out, a, cols.tipo), a, cols.numero), a, cols.anio),
        a, cols.estado)

\* search, lines 183-185: limit is None (falsy), or Some(n): "if limit" is false
\* for 0 as well.  rk is what the ranking of o gave.
SearchHead(a, cols, o, rk) ==
    {[out |-> [columns |-> o.frame.columns,
               rows |-> IF ~IsNone(a.limit) /\ Val(a.limit) # 0 THEN head(t, Val(a.limit))
                        ELSE t],
      cols |-> cols,
      df |-> rk.df] : t \in rk.orders}

\* search from line 171 on, o the filtered rows.
SearchRank(df, a, cols, o) ==
    SearchHead(a, cols, o, Ranked(o, df, a.query, cols.sumario, cols.fecha))

\* search from line 154 on, out the rows of the province and cols their columns.
SearchFilter(df, a, out, cols) == SearchRank(df, a, cols, Filtered(out, a, cols))

\* search from line 147 on.
SearchCols(df, a, out) == SearchFilter(df, a, out, Cols(out.frame))

\* saij_core.search: every (out, cols) it may return for df and the arguments a,
\* each with the caller's df as the call leaves it.
search(df, a) == SearchCols(df, a, _filter_pba(df))

(***************************************************************************)
(* Comparison of two rows.                                                 *)
(***************************************************************************)
\* The characters the model's texts are written in, in code point order: Python
\* compares str by it.
CodePoints ==
    "\t\n -./0123456789:ABCDEFGHIJKLMNOPQRSTUVWXYZ_abcdefghijklmnopqrstuvwxyzÁÉÍÑÓÚáéíñóú"
Ord(c) == Find(CodePoints, c)

\* a < b for two str.
RECURSIVE StrLess(_, _)
StrLess(a, b) ==
    IF Len(b) = 0 THEN FALSE
    ELSE IF Len(a) = 0 THEN TRUE
    ELSE IF Char(a, 1) = Char(b, 1) THEN StrLess(SubSeq(a, 2, Len(a)), SubSeq(b, 2, Len(b)))
    ELSE Ord(Char(a, 1)) < Ord(Char(b, 1))

\* sorted(S) for a set of str.
RECURSIVE Sorted(_)
Sorted(S) ==
    IF S = {} THEN <<>>
    ELSE LET x == CHOOSE x \in S : \A y \in S \ {x} : StrLess(x, y)
         IN  <<x>> \o Sorted(S \ {x})

\* k.capitalize() of the field names.
Capitalize(k) ==
    CASE k = "tipo" -> "Tipo" [] k = "numero" -> "Numero" [] k = "anio" -> "Anio"
      [] k = "fecha" -> "Fecha" [] k = "estado" -> "Estado"

\* row.get(cols.get("sumario", ""), ""): "" when the field is unresolved.
RowGet(row, c) == IF ~IsNone(c) /\ Val(c) \in DOMAIN row.val THEN row.val[Val(c)] ELSE ""

\* saij_core.summarize_row
summarize_row(row, cols) ==
    LET fields == <<"tipo", "numero", "anio", "fecha", "estado">>
        has(k) == /\ ~IsNone(cols[k])
                  /\ Val(cols[k]) \in DOMAIN row.val
                  /\ Str(row.val[Val(cols[k])]) # ""
        t == Table([i \in 1..Len(fields) |->
                      IF has(fields[i])
                      THEN <<Capitalize(fields[i]) \o ": "
                                 \o Str(row.val[Val(cols[fields[i]])])>>
                      ELSE <<>>])
        s == Str(RowGet(row, cols.sumario))
    IN  Strip(Join("; ", t[1] \o t[2] \o t[3] \o t[4] \o t[5]) \o "\n" \o s)

\* rapidfuzz fuzz.token_set_ratio / 100: 0 when either string has no token;
\* 1 when the tokens of one are among the tokens of the other; else the best of
\* the three normalized Indel similarities.
token_set_ratio(s1, s2) ==
    LET ta == Range(Split(s1))
        tb == Range(Split(s2))
        sect == Join(" ", Sorted(ta \cap tb))
        ab == Join(" ", Sorted(ta \ tb))
        ba == Join(" ", Sorted(tb \ ta))
        one == IF Len(sect) # 0 THEN 1 ELSE 0
        sect_ab == Len(sect) + one + Len(ab)
        sect_ba == Len(sect) + one + Len(ba)
        dist == Len(ab) + Len(ba) - 2 * LCS(ab, ba)
        normd(d, lensum) == IF lensum = 0 THEN <<1, 1>> ELSE <<lensum - d, lensum>>
        result == normd(dist, sect_ab + sect_ba)
    IN  IF ta = {} \/ tb = {} THEN <<0, 1>>
        ELSE IF ta \cap tb # {} /\ (ta \ tb = {} \/ tb \ ta = {}) THEN <<1, 1>>
        ELSE IF Len(sect) = 0 THEN result
        ELSE FMax({result,
                   normd(one + Len(ab), Len(sect) + sect_ab),
                   normd(one + Len(ba), Len(sect) + sect_ba)})

\* compare_rows.keys: the maximal runs of 4 letters or more of _norm(s), less
\* the stop words.
IsKeyLetter(c) == c \in LowerLetters \cup UpperLetters \cup AccentLower \cup AccentUpper
LetterRuns(t) ==
    LET starts == {i \in 1..Len(t) :
                      IsKeyLetter(Char(t, i)) /\ (i = 1 \/ ~IsKeyLetter(Char(t, i - 1)))}
        endOf(i) == CHOOSE j \in i..Len(t) :
                       /\ \A k \in i..j : IsKeyLetter(Char(t, k))
                       /\ (j = Len(t) \/ ~IsKeyLetter(Char(t, j + 1)))
    IN  {w \in {SubSeq(t, i, endOf(i)) : i \in starts} : Len(w) >= 4}
StopWords ==
    {"sobre", "para", "como", "ante", "entre", "hacia", "desde", "hasta", "fuera", "dentro",
     "este", "esta", "estaos", "estas"}
keys(s) == LetterRuns(Norm(s)) \ StopWords

\* saij_core.compare_rows: the parts of the text it returns.
compare_rows(a, b, cols) ==
    LET sa == summarize_row(a, cols)
        sb == summarize_row(b, cols)
        ka == keys(sa)
        kb == keys(sb)
        first10(seq) == SubSeq(seq, 1, IF Len(seq) < 10 THEN Len(seq) ELSE 10)
    IN  [sim |-> token_set_ratio(sa, sb),
         sa |-> sa,
         sb |-> sb,
         only_a |-> first10(Sorted(ka \ kb)),
         only_b |-> first10(Sorted(kb \ ka))]

(***************************************************************************)
(* The inputs the specifications draw from.                                *)
(***************************************************************************)
MaxRows == 3    \* rows of a corpus
MaxLex == 3     \* pieces a text is made of
MaxLoads == 2   \* calls of load_latest_dataframe in a run
MaxBig == 51    \* rows of the largest corpus of the limit checks

\* The norms the corpora are made of, by canonical field.
BaseRows ==
    << [provincia |-> "Buenos Aires", tipo |-> "Ley", numero |-> "14528", anio |-> "2013",
        fecha |-> "05/01/2020", sumario |-> "Régimen de adopción", estado |-> "Vigente",
        url |-> "http://n/1"],
       [provincia |-> "Buenos Aires", tipo |-> "Decreto", numero |-> "15", anio |-> "2020",
        fecha |-> "05/01/2020", sumario |-> "agua potable", estado |-> "No vigente",
        url |-> NaN],
       [provincia |-> "Córdoba", tipo |-> "Ley", numero |-> "2150", anio |-> "2017",
        fecha |-> "s/f", sumario |-> "agua", estado |-> "Vigente", url |-> NaN],
       [provincia |-> "Buenos Aires", tipo |-> "Ley", numero |-> "15464", anio |-> "2020",
        fecha |-> NaN, sumario |-> "agua", estado |-> "Derogada", url |-> NaN],
       [provincia |-> "Buenos Aires", tipo |-> "Resolución", numero |-> "7", anio |-> NaN,
        fecha |-> "01/02/2013", sumario |-> NaN, estado |-> NaN, url |-> NaN] >>

\* The column layouts of the snapshots: <<column name, canonical field>>.
SchemaSaij ==
    << <<"tipo_norma", "tipo">>, <<"numero", "numero">>, <<"anio", "anio">>,
       <<"fecha", "fecha">>, <<"sumario", "sumario">>, <<"estado", "estado">>,
       <<"url", "url">> >>
SchemaAlt ==
    << <<"Provincia", "provincia">>, <<"Tipo", "tipo">>, <<"Nro_Norma", "numero">>,
       <<"Año", "anio">>, <<"Titulo", "sumario">>, <<"Estado actual", "estado">> >>
SchemaBare == << <<"texto", "sumario">> >>
Schemas == {SchemaSaij, SchemaAlt, SchemaBare}

\* The snapshot of the first n norms under a layout.
Corpus(schema, n) ==
    LET field(c) == schema[CHOOSE k \in 1..Len(schema) : schema[k][1] = c][2]
    IN  [columns |-> [k \in 1..Len(schema) |-> schema[k][1]],
         rows |-> [i \in 1..n |->
                     [idx |-> i - 1,
                      val |-> [c \in {schema[k][1] : k \in 1..Len(schema)} |->
                                 BaseRows[i][field(c)]]]]]

Corpora == {Corpus(sch, n) : sch \in Schemas, n \in {0, MaxRows}}

\* str(n) of a natural number.
RECURSIVE IntStr(_)
IntStr(n) ==
    IF n < 10 THEN SubSeq("0123456789", n + 1, n + 1)
    ELSE IntStr(n \div 10) \o SubSeq("0123456789", (n % 10) + 1, (n % 10) + 1)

\* A snapshot of n norms that has their numbers only.
BigCorpus(n) ==
    [columns |-> <<"numero">>,
     rows |-> [i \in 1..n |-> [idx |-> i - 1, val |-> [c \in {"numero"} |-> IntStr(i)]]]]

\* The arguments the calls of search are drawn from.
ArgSpace ==
    {SearchArgs(q, t, v, n, a, d, h, l) :
        q \in {None, Some("agua")}, t \in {None, Some("LEY")},
        v \in {None, Some(TRUE), Some(FALSE)}, n \in {None, Some("15")},
        a \in {None, Some("2013")}, d \in {None, Some("2015")}, h \in {None, Some("2019")},
        l \in {None, Some(2)}}

Limits == {None} \cup {Some(n) : n \in {-1, 0, 1, 10, 50, 999}}

\* The pieces the texts of the parser checks are made of.
Lexicon ==
    {" ley 7", "/2020", "/ 2020", " agua", " decreto", " vigentes", " derogadas", " no vigente",
     " año 2021"}
RECURSIVE Concat(_)
Concat(seq) == IF Len(seq) = 0 THEN "" ELSE seq[1] \o Concat(Tail(seq))
Texts == {Concat(seq) : seq \in UNION {[1..n -> Lexicon] : n \in 1..MaxLex}}

\* The texts and the command arguments the chat sends.
Messages == {"agua", "ley 14528", "normas vigentes", "compará 14528 con 2150"}
NumberArgs == {None, Some(0), Some(1), Some(2), Some(99)}
VigenteArgs == {"on", "off", ""}
PageOffsets == {0, 5}

\* What load_latest_dataframe may return.
LoadableCorpora == {Corpus(SchemaSaij, MaxRows)}

(***************************************************************************)
(* bot.py: the handlers.  A handler gives the outcomes it may have: the    *)
(* user_data and the corpus it leaves and the reply it sends.              *)
(***************************************************************************)
\* context.user_data of a chat that has set nothing yet.
EmptyUserData ==
    [limit |-> None, vigente |-> None, last_results |-> None, last_cols |-> None,
     offset |-> None]

\* cols of a chat with no "last_cols": user_data.get("last_cols", {}).
NoCols ==
    [sumario |-> None, tipo |-> None, estado |-> None, numero |-> None, anio |-> None,
     fecha |-> None, url |-> None]

\* DataFrame.reset_index(drop=True): the rows are labelled 0, 1, ... anew.
reset_index(df) ==
    [columns |-> df.columns,
     rows |-> [i \in 1..Len(df.rows) |-> [idx |-> i - 1, val |-> df.rows[i].val]]]

\* bot._format_page: the rows of the page, and the buttons under it.
_format_page(df, cols, offset, page) ==
    LET n == Len(df.rows)
        lo == IF offset < n THEN offset + 1 ELSE n + 1
        hi == IF offset + page < n THEN offset + page ELSE n
    IN  [items |-> SubSeq(df.rows, lo, hi),
         anterior |-> offset > 0,
         siguiente |-> offset + page < n]

\* bot.set_limit: arg is the number int(context.args[0]) gives, None when there
\* is no argument or it is no number.
set_limit(ud, arg) ==
    IF IsNone(arg) THEN [user_data |-> ud, reply |-> [kind |-> "usage"]]
    ELSE LET n0 == IF Val(arg) < 50 THEN Val(arg) ELSE 50
             n == IF n0 > 1 THEN n0 ELSE 1
         IN  [user_data |-> [ud EXCEPT !.limit = Some(n)],
              reply |-> [kind |-> "limit", n |-> n]]

\* bot.set_vigente: val is the lowered first argument, "" when there is none.
set_vigente(ud, val) ==
    IF val \in {"on", "true", "si", "sí", "1"}
    THEN [user_data |-> [ud EXCEPT !.vigente = Some(TRUE)],
          reply |-> [kind |-> "vigente", text |-> "Filtro vigente: ON"]]
    ELSE IF val \in {"off", "false", "0", "no"}
    THEN [user_data |-> [ud EXCEPT !.vigente = Some(FALSE)],
          reply |-> [kind |-> "vigente", text |-> "Filtro vigente: OFF"]]
    ELSE [user_data |-> ud, reply |-> [kind |-> "usage"]]

\* df.iloc[i] exists: a negative i counts from the end.
IlocOk(df, i) == -Len(df.rows) <= i /\ i < Len(df.rows)
iloc(df, i) == IF i >= 0 THEN df.rows[i + 1] ELSE df.rows[Len(df.rows) + i + 1]

\* bot.detalle: arg as in set_limit.
detalle(ud, arg) ==
    LET i == Val(arg) - 1
        cols == IF IsNone(ud.last_cols) THEN NoCols ELSE Val(ud.last_cols)
    IN  IF IsNone(arg) THEN [kind |-> "usage"]
        ELSE IF IsNone(ud.last_results) \/ i < 0 \/ i >= Len(Val(ud.last_results).rows)
        THEN [kind |-> "invalid"]
        ELSE [kind |-> "detalle", n |-> i + 1, row |-> iloc(Val(ud.last_results), i),
              text |-> summarize_row(iloc(Val(ud.last_results), i), cols)]

\* bot.page_cb: off is the number in the callback data "page:<off>".
page_cb(ud, off) ==
    LET cols == IF IsNone(ud.last_cols) THEN NoCols ELSE Val(ud.last_cols)
    IN  IF IsNone(ud.last_results)
        THEN [user_data |-> ud, reply |-> [kind |-> "no_results"]]
        ELSE [user_data |-> [ud EXCEPT !.offset = Some(off)],
              reply |-> [kind |-> "page",
                         page |-> _format_page(Val(ud.last_results), cols, off, 5)]]

\* re.findall(r"\d{4,6}", raw): the runs of digits, six at a time.
RECURSIVE FindNums(_, _)
FindNums(s, i) ==
    IF i > Len(s) THEN <<>>
    ELSE LET n == DigitRun(s, i)
             k == IF n > 6 THEN 6 ELSE n
         IN  IF n >= 4 THEN <<SubSeq(s, i, i + k - 1)>> \o FindNums(s, i + k)
             ELSE FindNums(s, i + (IF n > 0 THEN n ELSE 1))

\* bot.handle, lines 114-119: the preferences of the chat fill what the text
\* left unset; the limit is 10 when neither gives one.
WithPreferences(intent, ud) ==
    LET lim == IF IsNone(intent.limit) /\ ~IsNone(ud.limit) THEN ud.limit ELSE intent.limit
        vig == IF IsNone(intent.vigente) /\ ~IsNone(ud.vigente) THEN ud.vigente
               ELSE intent.vigente
    IN  [intent EXCEPT !.limit = IF IsNone(lim) THEN Some(10) ELSE lim, !.vigente = vig]

\* bot.handle, lines 137-142: the arguments of the search of a text.
HandleSearchArgs(intent) ==
    SearchArgs(intent.q, intent.tipo, intent.vigente, intent.numero, intent.anio,
               intent.anio_desde, intent.anio_hasta,
               Some(IF Val(intent.limit) > 10 THEN Val(intent.limit) ELSE 10))

\* bot.handle, line 127: the search of a number of a "compare" text; line 125:
\* nums[:2].
NumberSearch(n) == SearchArgs(None, None, None, Some(n), None, None, None, Some(1))
FirstTwo(nums) == SubSeq(nums, 1, IF Len(nums) < 2 THEN Len(nums) ELSE 2)

\* bot.handle, lines 122-134: the searches by number of a "compare" text; the
\* outcomes are the rows found (one for each of the first two numbers that has
\* a match) with their cols, and the corpus as the searches leave it.
RECURSIVE CompareFound(_, _)
CompareFound(df, nums) ==
    IF Len(nums) = 0 THEN {[found |-> <<>>, df |-> df]}
    ELSE UNION {
            {[found |-> (IF Len(r.out.rows) = 0 THEN <<>>
                         ELSE <<[row |-> r.out.rows[1], cols |-> r.cols]>>) \o f.found,
              df |-> f.df] : f \in CompareFound(r.df, Tail(nums))} :
            r \in search(df, NumberSearch(nums[1]))}

\* bot.handle, lines 144-153, rs what the search gave: what is stored in
\* user_data (store: nothing when there is no result) and what is replied.
HandleResults(args, rs) ==
    {IF Len(r.out.rows) = 0
     THEN [store |-> None, df |-> r.df, searched |-> Some(args), reply |-> [kind |-> "empty"]]
     ELSE [store |-> Some([last_results |-> reset_index(r.out), last_cols |-> r.cols]),
           df |-> r.df, searched |-> Some(args),
           reply |-> [kind |-> "page",
                      page |-> _format_page(reset_index(r.out), r.cols, 0, 5)]] :
     r \in rs}

\* bot.handle, lines 137-142.
HandleSearch(df, args) == HandleResults(args, search(df, args))

\* bot.handle, lines 130-134 and on: cmps the outcomes of the searches by number.
HandleFound(intent, cmps) ==
    UNION {IF Len(c.found) = 2
           THEN {[store |-> None, df |-> c.df, searched |-> None,
                  reply |-> [kind |-> "comparar",
                             cmp |-> compare_rows(c.found[1].row, c.found[2].row,
                                                  c.found[1].cols)]]}
           ELSE HandleSearch(c.df, HandleSearchArgs(intent)) :
           c \in cmps}

\* bot.handle, lines 122-125.
HandleIntent(df, intent, nums) ==
    HandleFound(intent,
                IF intent.action = "compare" /\ Len(nums) > 0
                THEN CompareFound(df, FirstTwo(nums))
                ELSE {[found |-> <<>>, df |-> df]})

\* bot.handle from line 111 on, the corpus df loaded, p the preferences
\* (limit, vigente) of the chat: the outcomes.
HandleText(df, p, raw) ==
    HandleIntent(df, WithPreferences(parse_nl_query(raw), p), FindNums(raw, 1))

\* handle is a function of the corpus, the preferences and the text: its
\* outcomes for the corpora that can be loaded, the preferences /limite and
\* /vigente can set and the texts of the chat are worked out once.
Preferences ==
    {[limit |-> l, vigente |-> v] :
        l \in {set_limit(EmptyUserData, n).user_data.limit : n \in NumberArgs},
        v \in {None, Some(TRUE), Some(FALSE)}}
Handled ==
    Table([k \in LoadableCorpora \X Preferences \X Messages |-> HandleText(k[1], k[2], k[3])])

\* bot.handle from line 111 on, with the user_data of the chat.
HandleLoaded(df, ud, raw) ==
    {[user_data |-> IF IsNone(h.store) THEN ud
                    ELSE [ud EXCEPT !.last_results = Some(Val(h.store).last_results),
                                    !.last_cols = Some(Val(h.store).last_cols),
                                    !.offset = Some(0)],
      df |-> h.df, searched |-> h.searched, reply |-> h.reply] :
     h \in Handled[<<df, [limit |-> ud.limit, vigente |-> ud.vigente], raw>>]}

\* compare_rows is a function of the cells of the two rows and of cols: its
\* value for the rows of the corpora that can be loaded is worked out once.
Comparisons ==
    Table([k \in UNION {{<<x.val, y.val, Cols(_filter_pba(df).frame)>> :
                            x \in Range(df.rows), y \in Range(df.rows)} :
                        df \in LoadableCorpora} |->
              compare_rows([idx |-> 0, val |-> k[1]], [idx |-> 0, val |-> k[2]], k[3])])

\* bot.comparar_cmd: both arguments as in set_limit.
comparar_cmd(ud, arg1, arg2) ==
    LET a == Val(arg1) - 1
        b == Val(arg2) - 1
        df == Val(ud.last_results)
        cols == IF IsNone(ud.last_cols) THEN NoCols ELSE Val(ud.last_cols)
    IN  IF IsNone(arg1) \/ IsNone(arg2) THEN [kind |-> "usage"]
        ELSE IF IsNone(ud.last_results) THEN [kind |-> "no_results"]
        ELSE IF ~IlocOk(df, a) \/ ~IlocOk(df, b) THEN [kind |-> "usage"]
        ELSE [kind |-> "comparar", a |-> iloc(df, a), b |-> iloc(df, b),
              cmp |-> Comparisons[<<iloc(df, a).val, iloc(df, b).val, cols>>]]

(***************************************************************************)
(* The bot: one chat and the process-wide corpus.                          *)
(***************************************************************************)
NoCall == [fn |-> "none"]

Init ==
    /\ DF = None
    /\ loadCalls = 0
    /\ user_data = EmptyUserData
    /\ call = NoCall
    /\ ret = None

\* bot.start, bot.help_cmd: the help text is sent.
Start ==
    /\ call' = [fn |-> "start"]
    /\ ret' = Some([kind |-> "help"])
    /\ UNCHANGED <<DF, loadCalls, user_data>>

Help ==
    /\ call' = [fn |-> "help"]
    /\ ret' = Some([kind |-> "help"])
    /\ UNCHANGED <<DF, loadCalls, user_data>>

\* bot.status
Status ==
    /\ call' = [fn |-> "status"]
    /\ ret' = Some([kind |-> "status", n |-> IF IsNone(DF) THEN 0 ELSE Len(Val(DF).rows)])
    /\ UNCHANGED <<DF, loadCalls, user_data>>

SetLimit ==
    \E arg \in NumberArgs :
        /\ call' = [fn |-> "set_limit", arg |-> arg]
        /\ user_data' = set_limit(user_data, arg).user_data
        /\ ret' = Some(set_limit(user_data, arg).reply)
        /\ UNCHANGED <<DF, loadCalls>>

SetVigente ==
    \E val \in VigenteArgs :
        /\ call' = [fn |-> "set_vigente", arg |-> val]
        /\ user_data' = set_vigente(user_data, val).user_data
        /\ ret' = Some(set_vigente(user_data, val).reply)
        /\ UNCHANGED <<DF, loadCalls>>

Detalle ==
    \E arg \in NumberArgs :
        /\ call' = [fn |-> "detalle", arg |-> arg]
        /\ ret' = Some(detalle(user_data, arg))
        /\ UNCHANGED <<DF, loadCalls, user_data>>

Comparar ==
    \E arg1 \in NumberArgs, arg2 \in NumberArgs :
        /\ call' = [fn |-> "comparar", arg |-> <<arg1, arg2>>]
        /\ ret' = Some(comparar_cmd(user_data, arg1, arg2))
        /\ UNCHANGED <<DF, loadCalls, user_data>>

PageCb ==
    \E off \in PageOffsets :
        /\ call' = [fn |-> "page_cb", arg |-> off]
        /\ user_data' = page_cb(user_data, off).user_data
        /\ ret' = Some(page_cb(user_data, off).reply)
        /\ UNCHANGED <<DF, loadCalls>>

\* bot.handle: with DF None load_latest_dataframe is called first and returns
\* a corpus, which DF keeps; else the corpus there already is searched.
Handle ==
    \E raw \in Messages, df \in (IF IsNone(DF) THEN LoadableCorpora ELSE {Val(DF)}) :
        /\ IsNone(DF) => loadCalls < MaxLoads
        /\ loadCalls' = IF IsNone(DF) THEN loadCalls + 1 ELSE loadCalls
        /\ \E o \in HandleLoaded(df, user_data, raw) :
              /\ call' = [fn |-> "handle", text |-> raw, loaded |-> IsNone(DF)]
              /\ DF' = Some(o.df)
              /\ user_data' = o.user_data
              /\ ret' = Some([reply |-> o.reply, searched |-> o.searched])

\* bot.handle, DF None: load_latest_dataframe raises (no resource, a failed
\* request): the handler ends there and DF stays None.
HandleLoadRaises ==
    \E raw \in Messages :
        /\ IsNone(DF)
        /\ loadCalls < MaxLoads
        /\ loadCalls' = loadCalls + 1
        /\ call' = [fn |-> "handle", text |-> raw, loaded |-> FALSE]
        /\ ret' = Some([reply |-> [kind |-> "loading"], searched |-> None])
        /\ UNCHANGED <<DF, user_data>>

Next ==
    \/ Start
    \/ Help
    \/ Status
    \/ SetLimit
    \/ SetVigente
    \/ Detalle
    \/ Comparar
    \/ PageCb
    \/ Handle
    \/ HandleLoadRaises

Spec == Init /\ [][Next]_vars


(***************************************************************************)
(* saij_core.search called once: on a corpus, with arguments of ArgSpace.  *)
(* DF is the caller's df, call the arguments, ret what search returned.    *)
(***************************************************************************)
InitSearch ==
    /\ DF \in {Some(c) : c \in Corpora}
    /\ loadCalls = 0
    /\ user_data = EmptyUserData
    /\ call \in {[fn |-> "search", args |-> a] : a \in ArgSpace}
    /\ ret = None

SearchCall ==
    /\ call.fn = "search"
    /\ IsNone(ret)
    /\ \E r \in search(Val(DF), call.args) :
          /\ ret' = Some([out |-> r.out, cols |-> r.cols])
          /\ DF' = Some(r.df)
    /\ UNCHANGED <<loadCalls, user_data, call>>

\* The caller goes on to its next call, on the corpus as the last one left it.
SearchAgain ==
    /\ ~IsNone(ret)
    /\ call' \in {[fn |-> "search", args |-> a] : a \in ArgSpace}
    /\ ret' = None
    /\ UNCHANGED <<DF, loadCalls, user_data>>

NextSearch ==
    \/ SearchCall
    \/ SearchAgain

SpecSearch == InitSearch /\ [][NextSearch]_vars

\* The rows (by their place in the corpus) a result holds.
Returned(out) == {r.idx : r \in Range(out.rows)}

\* The filters a call can be given one more of.
FilterFields == {"tipo", "numero", "anio", "anio_desde", "anio_hasta", "vigente"}
FilterValues(f) ==
    IF f = "vigente" THEN {Some(TRUE), Some(FALSE)}
    ELSE {a[f] : a \in ArgSpace} \ {None}

\* The calls that are the call a with one filter more, the filter f.
Narrowings(a, f) == IF IsNone(a[f]) THEN {[a EXCEPT ![f] = v] : v \in FilterValues(f)} ELSE {}

\* The filter f added to the call a gives no row the call a did not give.
Narrows(a, f, rows) ==
    \A b \in Narrowings(a, f) : \A r \in search(Val(DF), b) : Returned(r.out) \subseteq rows

RankBranch(a, cols) ==
    IF ~IsNone(cols.sumario) /\ Truthy(a.query) THEN "score"
    ELSE IF ~IsNone(cols.fecha) THEN "date"
    ELSE "none"

\* Two rows rank alike: equal scores; equal dates, or no date either.
SameRank(a, cols, x, y) ==
    IF RankBranch(a, cols) = "score"
    THEN FEq(_rank_score(Str(FillNa(x.val[Val(cols.sumario)])), Split(Val(a.query))),
             _rank_score(Str(FillNa(y.val[Val(cols.sumario)])), Split(Val(a.query))))
    ELSE ToDatetime(x.val[Val(cols.fecha)]) = ToDatetime(y.val[Val(cols.fecha)])

\* C4: in a ranked result, two rows of equal score (free text), or of equal or
\* unparseable date (date branch), are in the order they have in the corpus.
C4_Stable ==
    (~IsNone(ret) /\ RankBranch(call.args, Val(ret).cols) # "none") =>
        LET rows == Val(ret).out.rows
        IN  \A i \in 1..Len(rows) : \A j \in (i + 1)..Len(rows) :
                SameRank(call.args, Val(ret).cols, rows[i], rows[j])
                    => rows[i].idx < rows[j].idx

\* C5: no call of search changes the corpus it is given: rows, their order,
\* columns and values are as before the call.
C5_CorpusReadOnly == [][DF' = DF]_vars

\* A search with no filter and no free text has ranked several rows by date.
C5_Witness ==
    /\ ~IsNone(ret)
    /\ IsNone(call.args.query)
    /\ call.args = SearchArgs(None, None, None, None, None, None, None, None)
    /\ ~IsNone(Val(ret).cols.fecha)
    /\ Len(Val(ret).out.rows) >= 2
    /\ Val(DF) \in Corpora

\* C10: with a resolved estado column no row is returned both with
\* vigente=true and with vigente=false, and no row whose estado is
\* "No vigente" is returned with vigente=true.
C10_Separated ==
    (~IsNone(ret) /\ call.args.vigente = Some(TRUE) /\ ~IsNone(Val(ret).cols.estado)) =>
        \A r \in Range(Val(ret).out.rows) :
            /\ ~Contains(Lower(FillNa(r.val[Val(Val(ret).cols.estado)])), "no vigente")
            /\ IsNone(call.args.limit) =>
                  \A o \in search(Val(DF), [call.args EXCEPT !.vigente = Some(FALSE)]) :
                      r.idx \notin Returned(o.out)

(***************************************************************************)
(* The limit of a search: search called once with a limit, or handle       *)
(* called once on a text, on a corpus of up to MaxBig norms.               *)
(***************************************************************************)
\* The default of search's limit parameter, and the ceiling of /limite.
DefaultLimit == 10
MaxLimit == 50

\* The texts that give a limit or none, and the limits /limite can have stored.
LimitTexts == {"agua", "agua limit 0", "agua limite: 99"}
LimitPreferences == {set_limit(EmptyUserData, n).user_data.limit : n \in NumberArgs}

InitLimit ==
    /\ DF \in {Some(BigCorpus(n)) : n \in 0..MaxBig}
    /\ loadCalls = 1
    /\ \/ /\ call \in {[fn |-> "search",
                        args |-> SearchArgs(None, None, None, None, None, None, None, l)] :
                       l \in Limits}
          /\ user_data = EmptyUserData
       \/ /\ call \in {[fn |-> "handle", text |-> t, loaded |-> FALSE] : t \in LimitTexts}
          /\ user_data \in {[EmptyUserData EXCEPT !.limit = l] : l \in LimitPreferences}
    /\ ret = None

SearchLimit ==
    /\ call.fn = "search"
    /\ IsNone(ret)
    /\ \E r \in search(Val(DF), call.args) :
          /\ ret' = Some([out |-> r.out])
          /\ DF' = Some(r.df)
    /\ UNCHANGED <<loadCalls, user_data, call>>

\* bot.handle on the loaded corpus: out is what the search it made returned
\* (last_results), no rows when there was nothing to store.
HandleLimit ==
    /\ call.fn = "handle"
    /\ IsNone(ret)
    /\ \E h \in HandleText(Val(DF), [limit |-> user_data.limit, vigente |-> user_data.vigente],
                           call.text) :
          /\ ret' = Some([out |-> IF IsNone(h.store) THEN [columns |-> <<>>, rows |-> <<>>]
                                  ELSE Val(h.store).last_results])
          /\ DF' = Some(h.df)
          /\ user_data' = IF IsNone(h.store) THEN user_data
                          ELSE [user_data EXCEPT
                                   !.last_results = Some(Val(h.store).last_results),
                                   !.last_cols = Some(Val(h.store).last_cols),
                                   !.offset = Some(0)]
    /\ UNCHANGED <<loadCalls, call>>

NextLimit ==
    \/ SearchLimit
    \/ HandleLimit

SpecLimit == InitLimit /\ [][NextLimit]_vars

\* C2: the limit is clamped: search with limit=999 returns at most 50 rows,
\* search with a limit of 0 or less returns at most the default 10 rows, and
\* a text handled by handle returns at most 50 rows whatever limit the text
\* or the /limite preference gives (at most 10 when the text gives 0).
C2_Clamped ==
    ~IsNone(ret) =>
        LET n == Len(Val(ret).out.rows)
        IN  /\ (call.fn = "search" /\ call.args.limit = Some(999)) => n <= MaxLimit
            /\ (call.fn = "search" /\ ~IsNone(call.args.limit) /\ Val(call.args.limit) <= 0)
                  => n <= DefaultLimit
            /\ call.fn = "handle" => n <= MaxLimit
            /\ (call.fn = "handle" /\ parse_nl_query(call.text).limit = Some(0))
                  => n <= DefaultLimit

\* C3: over any sequence of text messages, a load that raises included,
\* load_latest_dataframe is called at most once.
C3_LoadedOnce == loadCalls <= 1

\* A text holds no cue of either validity class.
NoValidityCue(text) ==
    \A k \in 1..Len(VigenteCues \o NoVigenteCues) :
        ~Contains(Lower(text), (VigenteCues \o NoVigenteCues)[k])

\* C9: after /vigente off (the stored preference is the one "off" set), a text
\* with no validity cue is searched with no validity filter.
C9_OffMeansNoFilter ==
    (/\ call.fn = "handle"
     /\ ~IsNone(ret)
     /\ user_data.vigente = Some(FALSE)
     /\ NoValidityCue(call.text)) =>
        (~IsNone(Val(ret).searched) => IsNone(Val(Val(ret).searched).vigente))

(***************************************************************************)
(* saij_core.parse_nl_query called once: on a text of Texts.               *)
(***************************************************************************)
InitParse ==
    /\ DF = None
    /\ loadCalls = 0
    /\ user_data = EmptyUserData
    /\ call \in {[fn |-> "parse_nl_query", text |-> t] : t \in Texts}
    /\ ret = None

ParseCall ==
    /\ call.fn = "parse_nl_query"
    /\ IsNone(ret)
    /\ ret' = Some(parse_nl_query(call.text))
    /\ UNCHANGED <<DF, loadCalls, user_data, call>>

NextParse == ParseCall

SpecParse == InitParse /\ [][NextParse]_vars

\* The text with the characters from position i, len of them, cut out.
CutOut(s, i, len) == SubSeq(s, 1, i - 1) \o " " \o SubSeq(s, i + len, Len(s))

\* C6: for a text that holds "<tipo word> <digits>[/<year>]", the tipo returned
\* is the label of the pattern's word, the numero its digits, the anio its
\* year when it has one, and q is what is left of the text without the
\* matched substring, year group included.
C6_PatternExtracted ==
    ~IsNone(ret) =>
        LET raw == Strip(call.text)
            mi == SearchPos(Lower(raw), "tipo_num")
            m == TipoNumAt(Lower(raw), mi, TRUE)
        IN  mi # 0 =>
                /\ Val(ret).tipo = Some(AliasOf(m.g1))
                /\ Val(ret).numero = Some(m.g2)
                /\ ~IsNone(m.g3) => Val(ret).anio = m.g3
                /\ Val(ret).q = ResidualQ(CutOut(raw, mi, m.len))

\* A text holds one of the cues.
HasCue(text, cues) == \E k \in 1..Len(cues) : Contains(Lower(text), cues[k])

\* C7: a text with a cue of each class gives vigente false, whatever their
\* order; with an "in force" cue only, true; with no cue, unspecified.
C7_CuePrecedence ==
    ~IsNone(ret) =>
        LET yes == HasCue(call.text, VigenteCues)
            no == HasCue(call.text, NoVigenteCues)
        IN  /\ (yes /\ no) => Val(ret).vigente = Some(FALSE)
            /\ (yes /\ ~no) => Val(ret).vigente = Some(TRUE)
            /\ (~yes /\ ~no) => IsNone(Val(ret).vigente)

(***************************************************************************)
(* saij_core.compare_rows called once: on two norms of a corpus, with the  *)
(* cols search gives for it.                                               *)
(***************************************************************************)
InitCompare ==
    /\ DF \in {Some(Corpus(sch, Len(BaseRows))) : sch \in Schemas}
    /\ loadCalls = 0
    /\ user_data = EmptyUserData
    /\ call \in {[fn |-> "compare_rows", a |-> a, b |-> b] :
                    a \in 1..Len(BaseRows), b \in 1..Len(BaseRows)}
    /\ ret = None

CompareCall ==
    /\ call.fn = "compare_rows"
    /\ IsNone(ret)
    /\ ret' = Some(compare_rows(Val(DF).rows[call.a], Val(DF).rows[call.b],
                                Cols(_filter_pba(Val(DF)).frame)))
    /\ UNCHANGED <<DF, loadCalls, user_data, call>>

NextCompare == CompareCall

SpecCompare == InitCompare /\ [][NextCompare]_vars

\* C8: a norm compared with itself, whatever fields are resolved: similarity
\* 100 and nothing "only in A" or "only in B".
C8_SelfMaximal ==
    (~IsNone(ret) /\ call.a = call.b) =>
        /\ FEq(Val(ret).sim, <<1, 1>>)
        /\ Val(ret).only_a = <<>>
        /\ Val(ret).only_b = <<>>

(***************************************************************************)
(* /detalle and /comparar on the stored results (the bot, Spec).           *)
(***************************************************************************)
\* n is a 1-based position of the stored last_results of the chat.
StoredPosition(ud, n) ==
    /\ ~IsNone(n)
    /\ ~IsNone(ud.last_results)
    /\ Val(n) \in 1..Len(Val(ud.last_results).rows)

\* The reply r to the command c, the chat holding ud: the records at the
\* positions asked for, or the invalid-index / usage message and no record.
ShownAtPositions(c, r, ud) ==
    /\ c.fn = "detalle" =>
          IF StoredPosition(ud, c.arg)
          THEN r.kind = "detalle" /\ r.row = Val(ud.last_results).rows[Val(c.arg)]
          ELSE r.kind \in {"usage", "invalid"}
    /\ c.fn = "comparar" =>
          IF StoredPosition(ud, c.arg[1]) /\ StoredPosition(ud, c.arg[2])
          THEN /\ r.kind = "comparar"
               /\ r.a = Val(ud.last_results).rows[Val(c.arg[1])]
               /\ r.b = Val(ud.last_results).rows[Val(c.arg[2])]
          ELSE r.kind \in {"usage", "no_results"}

\* C11: /detalle N and /comparar N M show the records at the positions N (and
\* M) of the stored last_results only: with a position outside
\* 1..len(last_results) (0 and negative numbers too) or nothing stored they
\* reply the invalid-index or usage message and show no record; and neither
\* changes last_results, last_cols or offset.
C11_StoredPositionsOnly ==
    [][call'.fn \in {"detalle", "comparar"} =>
          /\ user_data' = user_data
          /\ ShownAtPositions(call', Val(ret'), user_data)]_vars

=============================================================================
